---- MODULE Spec2Model ----
(***************************************************************************)
(* Frame acquisition of MAE-QC: the CameraStream classes of camera.py and  *)
(* camera_spoof.py (acquisition loop, backend instances, single-slot frame *)
(* cache with its lock, consumers of get_frame()), and the reader loop of  *)
(* camera_rpicam.py with its MJPEG marker parser.                          *)
(***************************************************************************)
EXTENDS Integers, Sequences, FiniteSets, TLC

\* ---------------------------------------------------------------- bounds
MaxThreads == 2
MaxInst == 2
NumConsumers == 1

ThreadIds == 1..MaxThreads
InstIds == 1..MaxInst
\* addresses of pixel buffers: a loop thread has at most two arrays alive (the
\* one it is reading into and the one it published), a consumer one
BufIds == 1..(2 * MaxThreads + NumConsumers)
ThreadPool(t) == {2 * t - 1, 2 * t}
ConsumerPool(c) == {2 * MaxThreads + c}
Consumers == 1..NumConsumers

MaxKids == 2
MaxStream == 8
KidIds == 1..MaxKids

\* processor.py: contours found in one frame, pixel coordinates of their
\* centres, and the radius bounds the diameter parameters convert to
MaxContours == 3
Coords == {1, 2}
MinRadiusPx == 2
MaxRadiusPx == 4
Radii == {MinRadiusPx - 1, MinRadiusPx, MaxRadiusPx, MaxRadiusPx + 1}

\* ------------------------------------------------------- values of fields
None == 0
Pixels == {"a", "b"}
\* the scene changes with every capture: the next frame differs from the cached one
NextPixel(last) == IF last = "a" THEN "b" ELSE "a"
Black == "black"
Scribbled == "x"
Classes == {"camera", "spoof"}
NoHolder == <<>>
NoImage == <<>>
\* what an open attempt finds: whether each constructor would succeed
NoProbe == [picam |-> FALSE, cv |-> FALSE]
\* bytes a child writes: the three values the marker scan tells apart (a D8 or
\* D9 that does not follow an FF, and an FF followed by neither, are plain data)
FF == 255
D8 == 216
D9 == 217
Bytes == {FF, D8, D9}
SOI == <<FF, D8>>
EOI == <<FF, D9>>
READ_SIZE == 4096
BUF_CEILING == 2 * 1024 * 1024
BUF_KEEP == 4096

VARIABLES
    cls,      \* which CameraStream class the object is
    running,  \* self._running
    impl,     \* self.impl: a backend instance or None
    frame,    \* self._frame: a buffer or None
    thread,   \* self._thread: the last loop thread or None
    lock,     \* holder of self._lock
    binst,    \* backend instances: "free", kind, or kind closed
    heap,     \* pixel buffers: content, or "free"
    pc,       \* position of each loop thread
    tmp,      \* backend a loop thread built in _init_impl, before the assignment
    lframe,   \* local `frame` of a loop thread, between read and store
    cpc,      \* position of the caller of start()/stop()
    ctmp,     \* backend the caller built in _init_impl
    raised,   \* the caller's last call ended by an exception
    kpc,      \* position of each consumer in get_frame()
    held,     \* the array each consumer got from its last get_frame()
    lastPub,  \* content stored by the last assignment to self._frame
    cap,      \* how many loop threads alive at once the exploration follows
    probe,    \* what the last open attempt found: could Picamera2 / OpenCV open
    lost,     \* kind of the backend the except handler closed last
    fcall     \* how the last focus call on the object ended

\* camera_rpicam.py
VARIABLES
    proc,      \* self._proc: a child process or None
    kids,      \* child processes: "free", "alive" or "exited"
    pipe,      \* bytes the child has written to its stdout, not yet read
    buf,       \* self._buf, the accumulator
    frame_bgr, \* self._frame_bgr: the decoded image or empty
    rpc,       \* position of the reader thread
    throttle,  \* max_decode_fps is set
    fed,       \* every byte read from a child's stdout so far
    frames,    \* every frame cut out of the accumulator, with what became of it
    stale      \* how many leading bytes of the accumulator earlier children
               \* wrote, or Untagged in behaviours that do not follow origins

rpivars == <<proc, kids, pipe, buf, frame_bgr, rpc, throttle, fed, frames, stale>>

\* camera_rpicam.py: the accumulator by its length alone, on a stream that
\* never holds an end marker
VARIABLES
    nlen,  \* len(self._buf)
    nfed,  \* bytes read so far
    nsoi,  \* the stream opens with a start marker (else it holds none)
    npc    \* position of the reader thread: "read" or "parse"

noisevars == <<nlen, nfed, nsoi, npc>>

\* processor.py: one call of measure_holes()
VARIABLES
    mheap,  \* image arrays: the argument at address 1, then those the call makes
    mfrm,   \* frame_bgr after zoom_frame()
    mimg,   \* img, the array the annotations are drawn on
    seen,   \* contours the for loop has been through
    cnt,    \* the contour in the loop body
    holes,  \* the list `holes`
    mpc     \* position in the call

measvars == <<mheap, mfrm, mimg, seen, cnt, holes, mpc>>

camvars == <<cls, running, impl, frame, thread, lock, binst, heap, pc, tmp,
             lframe, cpc, ctmp, raised, kpc, held, lastPub, cap, probe, lost,
             fcall>>

vars == <<cls, running, impl, frame, thread, lock, binst, heap, pc, tmp,
          lframe, cpc, ctmp, raised, kpc, held, lastPub, cap, probe, lost,
          fcall, rpivars, noisevars, measvars>>

\* ------------------------------------------------------------- helpers
Min(S) == CHOOSE x \in S : \A y \in S : x <= y

IsOpen(b, i) == i # None /\ b[i] \in {"picam", "opencv"}

Closed(k) == IF k \in {"picam", "opencv"} THEN "closed" ELSE k

\* (mutation) releasing a handle that is already released breaks it
WrapperStopOnce(b, i) ==
    [b EXCEPT ![i] = IF b[i] = "closed" THEN "broken" ELSE Closed(b[i])]

\* _PiCam2Wrapper.stop / _OpenCVCamWrapper.stop on instance i: never raises
WrapperStop(b, i) == [b EXCEPT ![i] = Closed(b[i])]

\* a closed instance nobody refers to is garbage
NormInst(b, im, tm, ct) ==
    [i \in InstIds |->
        IF b[i] = "closed"
           /\ im # i /\ ct # i /\ \A t \in ThreadIds : tm[t] # i
        THEN "free" ELSE b[i]]

FreeInst(b) == {i \in InstIds : b[i] = "free"}

\* a buffer nobody refers to is garbage
NormHeap(h, fr, lf, hd) ==
    [b \in BufIds |->
        IF fr # b /\ (\A t \in ThreadIds : lf[t] # b) /\ (\A c \in Consumers : hd[c] # b)
        THEN "free" ELSE h[b]]

FreeBufs(h) == {b \in BufIds : h[b] = "free"}

Alive(t) == pc[t] \notin {"none", "done"}

\* ------------------------------------------------------------ __init__
\* the origin of the accumulator's bytes is not followed
Untagged == 0 - 1

InitRpiBlank ==
    /\ proc = None
    /\ kids = [k \in KidIds |-> "free"]
    /\ pipe = <<>>
    /\ buf = <<>>
    /\ frame_bgr = NoImage
    /\ rpc = "none"
    /\ fed = <<>>
    /\ frames = <<>>

InitRpiIdle == InitRpiBlank /\ stale = Untagged

InitNoiseIdle ==
    /\ nlen = 0
    /\ nfed = 0
    /\ nsoi = FALSE
    /\ npc = "none"

\* no call of measure_holes() under way
NoContour == [x |-> 0, y |-> 0, r |-> 0, shape |-> "none"]
NoArray == [base |-> "free", marks |-> <<>>]
MBufIds == 1..3

InitMeasureIdle ==
    /\ mheap = [a \in MBufIds |-> NoArray]
    /\ mfrm = None
    /\ mimg = None
    /\ seen = 0
    /\ cnt = NoContour
    /\ holes = <<>>
    /\ mpc = "none"

InitObject ==
    /\ cls \in Classes
    /\ InitRpiIdle
    /\ InitNoiseIdle
    /\ InitMeasureIdle
    /\ throttle = FALSE
    /\ running = FALSE
    /\ impl = None
    /\ thread = None
    /\ lock = NoHolder
    /\ binst = [i \in InstIds |-> "free"]
    /\ frame = IF cls = "spoof" THEN 1 ELSE None
    /\ heap = [b \in BufIds |-> IF cls = "spoof" /\ b = 1 THEN Black ELSE "free"]
    /\ pc = [t \in ThreadIds |-> "none"]
    /\ tmp = [t \in ThreadIds |-> None]
    /\ lframe = [t \in ThreadIds |-> None]
    /\ cpc = "idle"
    /\ ctmp = None
    /\ raised = FALSE
    /\ kpc = [c \in Consumers |-> "idle"]
    /\ held = [c \in Consumers |-> None]
    /\ lastPub = IF cls = "spoof" THEN Black ELSE "none"
    /\ probe = NoProbe
    /\ lost = "none"
    /\ fcall = "none"

\* one acquisition thread per camera (spec section 5); InitRestart follows the
\* threads a timed-out join leaves behind
Init == InitObject /\ cap = 1

InitRestart == InitObject /\ cap = MaxThreads

\* ----------------------------------------------------------- _init_impl
\* (mutation) the fallback is tried first
SelectBackendFallbackFirst(picamOK, cvOK) ==
    IF cvOK THEN "opencv" ELSE IF picamOK THEN "picam" ELSE "raise"

\* backend selection: Picamera2 first, OpenCV only if that raised
SelectBackend(picamOK, cvOK) ==
    IF picamOK THEN "picam" ELSE IF cvOK THEN "opencv" ELSE "raise"

\* what the two constructors would do at one open attempt (neither succeeds
\* when no handle is left)
Probes(b) ==
    IF FreeInst(b) = {} THEN {NoProbe}
    ELSE [picam : BOOLEAN, cv : BOOLEAN]

\* one open attempt: the kind built, or "raise"
OpenOutcomes(b) == {SelectBackend(q.picam, q.cv) : q \in Probes(b)}

NewInst(b, k) == [b EXCEPT ![Min(FreeInst(b))] = k]

\* ------------------------------------------------------------ get_frame
\* (mutation) get_frame() hands out the cached array itself
FrameAlias(h, fr, pool) == [ref |-> fr, heap |-> h]

\* self._frame.copy(): a new buffer with the same content
FrameCopy(h, fr, pool) ==
    LET n == Min(pool) IN [ref |-> n, heap |-> [h EXCEPT ![n] = h[fr]]]

GetAcquire(c) ==
    /\ kpc[c] = "idle"
    /\ lock = NoHolder
    /\ lock' = <<"cons", c>>
    /\ kpc' = [kpc EXCEPT ![c] = "locked"]
    /\ UNCHANGED <<measvars, fcall, noisevars, probe, lost, cls, running, impl, frame, thread, binst, heap, pc, tmp,
                   lframe, cpc, ctmp, raised, held, lastPub, cap, rpivars>>

GetCopy(c) ==
    /\ kpc[c] = "locked"
    /\ lock = <<"cons", c>>
    /\ LET r == IF frame = None THEN [ref |-> None, heap |-> heap]
                ELSE FrameCopy(heap, frame, ConsumerPool(c))
       IN /\ held' = [held EXCEPT ![c] = r.ref]
          /\ heap' = NormHeap(r.heap, frame, lframe, held')
    /\ lock' = NoHolder
    /\ kpc' = [kpc EXCEPT ![c] = "idle"]
    /\ UNCHANGED <<measvars, fcall, noisevars, probe, lost, cls, running, impl, frame, thread, binst, pc, tmp,
                   lframe, cpc, ctmp, raised, lastPub, cap, rpivars>>

\* a consumer writes into the array it was given (app.py draws on it)
Mutate(c) ==
    /\ kpc[c] = "idle"
    /\ held[c] # None
    /\ heap[held[c]] # Scribbled
    /\ heap' = [heap EXCEPT ![held[c]] = Scribbled]
    /\ UNCHANGED <<measvars, fcall, noisevars, probe, lost, cls, running, impl, frame, thread, lock, binst, pc, tmp,
                   lframe, cpc, ctmp, raised, kpc, held, lastPub, cap, rpivars>>

\* ---------------------------------------------------------------- _loop
\* while self._running: reached at thread start and after each sleep that
\* ends an iteration ("pace" after a store, "sleep2" after a failed re-init,
\* "check" after a successful one)
LoopCheck(t) ==
    /\ pc[t] \in {"check", "pace", "sleep2"}
    /\ pc' = [pc EXCEPT ![t] = IF ~running THEN "done"
                                ELSE IF cls = "spoof" THEN "acquire" ELSE "read"]
    /\ UNCHANGED <<measvars, fcall, noisevars, probe, lost, cls, running, impl, frame, thread, lock, binst, heap, tmp,
                   lframe, cpc, ctmp, raised, kpc, held, lastPub, cap, rpivars>>

\* frame = self.impl.read(): a fresh array, or an exception (also the
\* AttributeError of None.read() and a read on a stopped backend)
LoopRead(t) ==
    /\ pc[t] = "read"
    /\ \/ /\ IsOpen(binst, impl)
          /\ LET n == Min(FreeBufs(heap) \cap ThreadPool(t)) IN
                /\ heap' = [heap EXCEPT ![n] = NextPixel(lastPub)]
                /\ lframe' = [lframe EXCEPT ![t] = n]
          /\ pc' = [pc EXCEPT ![t] = "acquire"]
       \/ /\ pc' = [pc EXCEPT ![t] = "except"]
          /\ UNCHANGED <<heap, lframe>>
    /\ UNCHANGED <<measvars, fcall, noisevars, probe, lost, cls, running, impl, frame, thread, lock, binst, tmp,
                   cpc, ctmp, raised, kpc, held, lastPub, cap, rpivars>>

LoopAcquire(t) ==
    /\ pc[t] = "acquire"
    /\ lock = NoHolder
    /\ lock' = <<"loop", t>>
    /\ pc' = [pc EXCEPT ![t] = "store"]
    /\ UNCHANGED <<measvars, fcall, noisevars, probe, lost, cls, running, impl, frame, thread, binst, heap, tmp,
                   lframe, cpc, ctmp, raised, kpc, held, lastPub, cap, rpivars>>

\* (mutation) the pacing sleep is inside the `with self._lock:` block
LoopStoreKeepsLock(t) ==
    /\ pc[t] = "store"
    /\ lock = <<"loop", t>>
    /\ IF cls = "spoof"
       THEN LET n == Min(FreeBufs(heap) \cap ThreadPool(t)) IN
            /\ frame' = n
            /\ lastPub' = Black
            /\ heap' = NormHeap([heap EXCEPT ![n] = Black], n, lframe, held)
            /\ UNCHANGED lframe
       ELSE /\ frame' = lframe[t]
            /\ lastPub' = heap[lframe[t]]
            /\ lframe' = [lframe EXCEPT ![t] = None]
            /\ heap' = NormHeap(heap, frame', lframe', held)
    /\ pc' = [pc EXCEPT ![t] = "pace"]
    /\ UNCHANGED <<measvars, fcall, noisevars, probe, lost, cls, running, impl, thread, lock, binst, tmp,
                   cpc, ctmp, raised, kpc, held, cap, rpivars>>

\* with self._lock: self._frame = frame   (spoof: = self._black_frame.copy())
LoopStore(t) ==
    /\ pc[t] = "store"
    /\ lock = <<"loop", t>>
    /\ IF cls = "spoof"
       THEN LET n == Min(FreeBufs(heap) \cap ThreadPool(t)) IN
            /\ frame' = n
            /\ lastPub' = Black
            /\ heap' = NormHeap([heap EXCEPT ![n] = Black], n, lframe, held)
            /\ UNCHANGED lframe
       ELSE /\ frame' = lframe[t]
            /\ lastPub' = heap[lframe[t]]
            /\ lframe' = [lframe EXCEPT ![t] = None]
            /\ heap' = NormHeap(heap, frame', lframe', held)
    /\ lock' = NoHolder
    /\ pc' = [pc EXCEPT ![t] = "pace"]
    /\ UNCHANGED <<measvars, fcall, noisevars, probe, lost, cls, running, impl, thread, binst, tmp,
                   cpc, ctmp, raised, kpc, held, cap, rpivars>>

\* except: try: self.impl.stop()
LoopExcept(t) ==
    /\ pc[t] = "except"
    /\ binst' = IF impl = None THEN binst ELSE WrapperStop(binst, impl)
    /\ lost' = IF impl = None THEN "none" ELSE binst[impl]
    /\ pc' = [pc EXCEPT ![t] = "clear"]
    /\ UNCHANGED <<measvars, fcall, noisevars, probe, cls, running, impl, frame, thread, lock, heap, tmp,
                   lframe, cpc, ctmp, raised, kpc, held, lastPub, cap, rpivars>>

\* (mutation) the except handler gives up: the thread ends after closing
LoopClearBreak(t) ==
    /\ pc[t] = "clear"
    /\ impl' = None
    /\ binst' = NormInst(binst, impl', tmp, ctmp)
    /\ pc' = [pc EXCEPT ![t] = "done"]
    /\ UNCHANGED <<measvars, fcall, noisevars, probe, lost, cls, running, frame, thread, lock, heap, tmp,
                   lframe, cpc, ctmp, raised, kpc, held, lastPub, cap, rpivars>>

\* (mutation) the except handler also empties the frame cache
LoopClearDropsFrame(t) ==
    /\ pc[t] = "clear"
    /\ impl' = None
    /\ frame' = None
    /\ binst' = NormInst(binst, impl', tmp, ctmp)
    /\ heap' = NormHeap(heap, frame', lframe, held)
    /\ pc' = [pc EXCEPT ![t] = "sleep1"]
    /\ UNCHANGED <<measvars, fcall, noisevars, probe, lost, cls, running, thread, lock, tmp,
                   lframe, cpc, ctmp, raised, kpc, held, lastPub, cap, rpivars>>

\* self.impl = None
LoopClear(t) ==
    /\ pc[t] = "clear"
    /\ impl' = None
    /\ binst' = NormInst(binst, impl', tmp, ctmp)
    /\ pc' = [pc EXCEPT ![t] = "sleep1"]
    /\ UNCHANGED <<measvars, fcall, noisevars, probe, lost, cls, running, frame, thread, lock, heap, tmp,
                   lframe, cpc, ctmp, raised, kpc, held, lastPub, cap, rpivars>>

\* time.sleep(self.reconnect_delay); try: self._init_impl(), up to the
\* construction of the wrapper; a failure leaves the thread in the second sleep
LoopInit(t) ==
    /\ pc[t] = "sleep1"
    /\ \E q \in Probes(binst) :
          LET k == SelectBackend(q.picam, q.cv) IN
          /\ probe' = q
          /\ IF k = "raise"
             THEN /\ pc' = [pc EXCEPT ![t] = "sleep2"]
                  /\ UNCHANGED <<binst, tmp>>
             ELSE /\ tmp' = [tmp EXCEPT ![t] = Min(FreeInst(binst))]
                  /\ binst' = NewInst(binst, k)
                  /\ pc' = [pc EXCEPT ![t] = "assign"]
    /\ UNCHANGED <<measvars, fcall, noisevars, lost, cls, running, impl, frame, thread, lock, heap,
                   lframe, cpc, ctmp, raised, kpc, held, lastPub, cap, rpivars>>

\* self.impl = <the wrapper built>
LoopAssign(t) ==
    /\ pc[t] = "assign"
    /\ impl' = tmp[t]
    /\ tmp' = [tmp EXCEPT ![t] = None]
    /\ binst' = NormInst(binst, impl', tmp', ctmp)
    /\ pc' = [pc EXCEPT ![t] = "check"]
    /\ UNCHANGED <<measvars, fcall, noisevars, probe, lost, cls, running, frame, thread, lock, heap,
                   lframe, cpc, ctmp, raised, kpc, held, lastPub, cap, rpivars>>

LoopStep(t) ==
    \/ LoopCheck(t) \/ LoopRead(t) \/ LoopAcquire(t) \/ LoopStore(t)
    \/ LoopExcept(t) \/ LoopClear(t) \/ LoopInit(t) \/ LoopAssign(t)

\* ---------------------------------------------------------------- start
StartCall ==
    /\ cpc = "idle"
    /\ raised' = FALSE
    /\ IF running
       THEN UNCHANGED <<running, cpc>>
       ELSE /\ Cardinality({t \in ThreadIds : Alive(t)}) < cap
            /\ running' = TRUE
            /\ cpc' = IF cls = "spoof" THEN "start_thread" ELSE "start_init"
    /\ UNCHANGED <<measvars, fcall, noisevars, probe, lost, cls, impl, frame, thread, lock, binst, heap, pc, tmp,
                   lframe, ctmp, kpc, held, lastPub, cap, rpivars>>

\* self._init_impl() in start(): an exception leaves start()
StartInit ==
    /\ cpc = "start_init"
    /\ \E q \in Probes(binst) :
          LET k == SelectBackend(q.picam, q.cv) IN
          /\ probe' = q
          /\ IF k = "raise"
             THEN /\ raised' = TRUE
                  /\ cpc' = "idle"
                  /\ UNCHANGED <<binst, ctmp>>
             ELSE /\ ctmp' = Min(FreeInst(binst))
                  /\ binst' = NewInst(binst, k)
                  /\ cpc' = "start_assign"
                  /\ UNCHANGED raised
    /\ UNCHANGED <<measvars, fcall, noisevars, lost, cls, running, impl, frame, thread, lock, heap, pc, tmp,
                   lframe, kpc, held, lastPub, cap, rpivars>>

StartAssign ==
    /\ cpc = "start_assign"
    /\ impl' = ctmp
    /\ ctmp' = None
    /\ binst' = NormInst(binst, impl', tmp, ctmp')
    /\ cpc' = "start_thread"
    /\ UNCHANGED <<measvars, fcall, noisevars, probe, lost, cls, running, frame, thread, lock, heap, pc, tmp,
                   lframe, raised, kpc, held, lastPub, cap, rpivars>>

\* self._thread = threading.Thread(target=self._loop); self._thread.start()
StartThread ==
    /\ cpc = "start_thread"
    /\ LET t == Min({u \in ThreadIds : ~Alive(u)}) IN
       /\ pc' = [pc EXCEPT ![t] = "check"]
       /\ thread' = t
    /\ cpc' = "idle"
    /\ UNCHANGED <<measvars, fcall, noisevars, probe, lost, cls, running, impl, frame, lock, binst, heap, tmp,
                   lframe, ctmp, raised, kpc, held, lastPub, cap, rpivars>>

\* ----------------------------------------------------------------- stop
StopCall ==
    /\ cpc = "idle"
    /\ raised' = FALSE
    /\ running' = FALSE
    /\ cpc' = IF thread # None /\ Alive(thread) THEN "stop_join" ELSE "stop_close"
    /\ UNCHANGED <<measvars, fcall, noisevars, probe, lost, cls, impl, frame, thread, lock, binst, heap, pc, tmp,
                   lframe, ctmp, kpc, held, lastPub, cap, rpivars>>

\* self._thread.join(timeout=2): the thread ended, or the timeout passed
StopJoin ==
    /\ cpc = "stop_join"
    /\ cpc' = "stop_close"
    /\ UNCHANGED <<measvars, fcall, noisevars, probe, lost, cls, running, impl, frame, thread, lock, binst, heap, pc, tmp,
                   lframe, ctmp, raised, kpc, held, lastPub, cap, rpivars>>

\* if self.impl: self.impl.stop()    (the spoof class has no backend)
StopClose ==
    /\ cpc = "stop_close"
    /\ binst' = IF cls = "spoof" \/ impl = None THEN binst
                ELSE WrapperStop(binst, impl)
    /\ cpc' = "idle"
    /\ UNCHANGED <<measvars, fcall, noisevars, probe, lost, cls, running, impl, frame, thread, lock, heap, pc, tmp,
                   lframe, ctmp, raised, kpc, held, lastPub, cap, rpivars>>

\* ---------------------------------------------------------------- focus
\* the focus controls app.py calls on the acquisition object
FocusControls == {"set_manual_focus", "set_auto_focus", "set_continuous_focus"}

\* the methods a CameraStream object has (the same in all three classes)
Methods == {"start", "get_frame", "stop"}

\* cam.<m>(...): the attribute lookup on the object, then the call
Invoke(m) == IF m \in Methods THEN "returned" ELSE "raised"

\* the /focus handler calls one of the controls
FocusCall ==
    /\ cpc = "idle"
    /\ \E m \in FocusControls : fcall' = Invoke(m)
    /\ UNCHANGED <<measvars, noisevars, rpivars, cls, running, impl, frame, thread,
                   lock, binst, heap, pc, tmp, lframe, cpc, ctmp, raised, kpc, held,
                   lastPub, cap, probe, lost>>

Caller ==
    \/ StartCall \/ StartInit \/ StartAssign \/ StartThread
    \/ StopCall \/ StopJoin \/ StopClose

Next ==
    \/ Caller
    \/ \E t \in ThreadIds : LoopStep(t)
    \/ \E c \in Consumers : GetAcquire(c) \/ GetCopy(c) \/ Mutate(c)

NextAcq ==
    \/ Caller
    \/ \E t \in ThreadIds : LoopStep(t)

Spec == Init /\ [][Next]_vars

SpecRestart == InitRestart /\ [][NextAcq]_vars

\* =========================================================== camera_rpicam.py
\* bytes.find(m, start): the lowest 0-based index >= start where the two-byte
\* marker m begins, or -1
Find(b, m, start) ==
    LET hits == {i \in start..(Len(b) - 2) : b[i + 1] = m[1] /\ b[i + 2] = m[2]}
    IN IF hits = {} THEN -1 ELSE Min(hits)

\* b[lo:hi]
Slice(b, lo, hi) == SubSeq(b, lo + 1, hi)

\* del b[:n]
DelHead(b, n) == SubSeq(b, n + 1, Len(b))

\* del b[:-n]
KeepTail(b, n) == IF Len(b) > n THEN SubSeq(b, Len(b) - n + 1, Len(b)) ELSE b

\* (mutation) the end marker is left out of the frame: no `eoi += 2`
ParseIterNoEoi(b) ==
    LET soi == Find(b, SOI, 0) IN
    IF soi < 0
    THEN [buf |-> IF Len(b) > BUF_CEILING THEN KeepTail(b, BUF_KEEP) ELSE b,
          jpg |-> <<>>, brk |-> TRUE]
    ELSE LET eoi == Find(b, EOI, soi + 2) IN
         IF eoi < 0
         THEN [buf |-> IF soi > 0 THEN DelHead(b, soi) ELSE b,
               jpg |-> <<>>, brk |-> TRUE]
         ELSE [buf |-> DelHead(b, eoi + 2),
               jpg |-> Slice(b, soi, eoi), brk |-> FALSE]

\* (mutation) the frame is cut from the head of the accumulator, lead-in included
ParseIterFromHead(b) ==
    LET soi == Find(b, SOI, 0) IN
    IF soi < 0
    THEN [buf |-> IF Len(b) > BUF_CEILING THEN KeepTail(b, BUF_KEEP) ELSE b,
          jpg |-> <<>>, brk |-> TRUE]
    ELSE LET eoi == Find(b, EOI, soi + 2) IN
         IF eoi < 0
         THEN [buf |-> b, jpg |-> <<>>, brk |-> TRUE]
         ELSE [buf |-> DelHead(b, eoi + 2),
               jpg |-> Slice(b, 0, eoi + 2), brk |-> FALSE]

\* one iteration of the inner `while True`: the accumulator left, the frame cut
\* out (empty if none) and whether the iteration left the loop
ParseIter(b) ==
    LET soi == Find(b, SOI, 0) IN
    IF soi < 0
    THEN [buf |-> IF Len(b) > BUF_CEILING THEN KeepTail(b, BUF_KEEP) ELSE b,
          jpg |-> <<>>, brk |-> TRUE]
    ELSE LET eoi == Find(b, EOI, soi + 2) IN
         IF eoi < 0
         THEN [buf |-> IF soi > 0 THEN DelHead(b, soi) ELSE b,
               jpg |-> <<>>, brk |-> TRUE]
         ELSE [buf |-> DelHead(b, eoi + 2),
               jpg |-> Slice(b, soi, eoi + 2), brk |-> FALSE]

\* bytes of earlier children left at the head after n bytes were deleted there
StaleAfter(st, n) ==
    IF st = Untagged THEN Untagged ELSE IF st > n THEN st - n ELSE 0

\* cv2.imdecode of a frame that decodes: the image of these bytes
Image(jpg) == <<"bgr", jpg>>

DecodedBefore == \E i \in 1..Len(frames) : frames[i].res = "decoded"

\* _stop_proc(): SIGINT, wait, kill; self._proc = None
StopProc(k, p) == IF p = None THEN k ELSE [k EXCEPT ![p] = "free"]

\* start(): the reader thread spawns the process itself
RStart ==
    /\ cls = "rpicam"
    /\ cpc = "idle"
    /\ IF running
       THEN UNCHANGED <<running, rpc>>
       ELSE /\ rpc \in {"none", "done"}
            /\ running' = TRUE
            /\ rpc' = "check"
    /\ UNCHANGED <<measvars, fcall, noisevars, probe, lost, cls, impl, frame, thread, lock, binst, heap, pc, tmp, lframe,
                   cpc, ctmp, raised, kpc, held, lastPub, cap,
                   proc, kids, pipe, buf, frame_bgr, stale, throttle, fed, frames>>

RStopCall ==
    /\ cls = "rpicam"
    /\ cpc = "idle"
    /\ running' = FALSE
    /\ cpc' = IF rpc \notin {"none", "done"} THEN "stop_join" ELSE "stop_close"
    /\ UNCHANGED <<measvars, fcall, noisevars, probe, lost, cls, impl, frame, thread, lock, binst, heap, pc, tmp, lframe,
                   ctmp, raised, kpc, held, lastPub, cap, rpivars>>

\* self._reader_thread.join(timeout=2.0): the thread ended, or the timeout passed
RStopJoin ==
    /\ cls = "rpicam"
    /\ cpc = "stop_join"
    /\ cpc' = "stop_close"
    /\ UNCHANGED <<measvars, fcall, noisevars, probe, lost, cls, running, impl, frame, thread, lock, binst, heap, pc, tmp,
                   lframe, ctmp, raised, kpc, held, lastPub, cap, rpivars>>

RStopProc ==
    /\ cls = "rpicam"
    /\ cpc = "stop_close"
    /\ kids' = StopProc(kids, proc)
    /\ pipe' = IF proc = None THEN pipe ELSE <<>>
    /\ proc' = None
    /\ cpc' = "idle"
    /\ UNCHANGED <<measvars, fcall, noisevars, probe, lost, cls, running, impl, frame, thread, lock, binst, heap, pc, tmp,
                   lframe, ctmp, raised, kpc, held, lastPub, cap,
                   buf, frame_bgr, rpc, stale, throttle, fed, frames>>

\* while self._running: reached at thread start, after a parsing pass and after
\* each `continue` (out of the sleep that precedes it)
RCheck ==
    /\ rpc \in {"check", "readsleep", "failsleep"}
    /\ rpc' = IF running THEN "ensure" ELSE "done"
    /\ UNCHANGED <<measvars, fcall, noisevars, probe, lost, cls, running, impl, frame, thread, lock, binst, heap, pc, tmp,
                   lframe, cpc, ctmp, raised, kpc, held, lastPub, cap,
                   proc, kids, pipe, buf, frame_bgr, stale, throttle, fed, frames>>

\* if not self._proc or self._proc.poll() is not None: self._stop_proc(); sleep
REnsure ==
    /\ rpc = "ensure"
    /\ IF proc = None \/ kids[proc] # "alive"
       THEN /\ kids' = StopProc(kids, proc)
            /\ pipe' = IF proc = None THEN pipe ELSE <<>>
            /\ proc' = None
            /\ rpc' = "spawnsleep"
       ELSE /\ rpc' = "read"
            /\ UNCHANGED <<proc, kids, pipe>>
    /\ UNCHANGED <<measvars, fcall, noisevars, probe, lost, cls, running, impl, frame, thread, lock, binst, heap, pc, tmp,
                   lframe, cpc, ctmp, raised, kpc, held, lastPub, cap,
                   buf, frame_bgr, stale, throttle, fed, frames>>

\* self._spawn() after the sleep: a new child, or an exception and a second sleep
RSpawn ==
    /\ rpc = "spawnsleep"
    /\ \/ /\ \E k \in KidIds : kids[k] = "free"
          /\ LET k == Min({j \in KidIds : kids[j] = "free"}) IN
             /\ kids' = [kids EXCEPT ![k] = "alive"]
             /\ proc' = k
          /\ pipe' = <<>>
          /\ stale' = IF stale = Untagged THEN Untagged ELSE Len(buf)
          /\ rpc' = "read"
       \/ /\ rpc' = "failsleep"
          /\ UNCHANGED <<proc, kids, pipe, stale>>
    /\ UNCHANGED <<measvars, fcall, noisevars, probe, lost, cls, running, impl, frame, thread, lock, binst, heap, pc, tmp,
                   lframe, cpc, ctmp, raised, kpc, held, lastPub, cap,
                   buf, frame_bgr, throttle, fed, frames>>

\* chunk = self._proc.stdout.read(4096): what the pipe holds, up to 4096 bytes;
\* an empty chunk (end of stream) or an exception stops the child and sleeps
RRead ==
    /\ rpc = "read"
    /\ \/ /\ proc # None /\ pipe # <<>>
          /\ LET n == IF Len(pipe) < READ_SIZE THEN Len(pipe) ELSE READ_SIZE IN
             /\ buf' = buf \o SubSeq(pipe, 1, n)
             /\ fed' = fed \o SubSeq(pipe, 1, n)
             /\ pipe' = DelHead(pipe, n)
          /\ rpc' = "parse"
          /\ UNCHANGED <<proc, kids>>
       \/ /\ proc = None \/ pipe = <<>>
          /\ kids' = StopProc(kids, proc)
          /\ proc' = None
          /\ pipe' = <<>>
          /\ rpc' = "readsleep"
          /\ UNCHANGED <<buf, fed>>
    /\ UNCHANGED <<measvars, fcall, noisevars, probe, lost, cls, running, impl, frame, thread, lock, binst, heap, pc, tmp,
                   lframe, cpc, ctmp, raised, kpc, held, lastPub, cap,
                   frame_bgr, stale, throttle, frames>>

\* (mutation) a frame that fails to decode is handled like a failed read
RParseFailRestarts ==
    /\ rpc = "parse"
    /\ LET r == ParseIter(buf) IN
       /\ buf' = r.buf
       /\ stale' = StaleAfter(stale, Len(buf) - Len(r.buf))
       /\ IF r.brk
          THEN /\ rpc' = "check"
               /\ UNCHANGED <<frame_bgr, frames, proc, kids, pipe>>
          ELSE \/ /\ throttle /\ DecodedBefore
                  /\ frames' = Append(frames, [jpg |-> r.jpg, res |-> "skipped"])
                  /\ rpc' = "parse"
                  /\ UNCHANGED <<frame_bgr, proc, kids, pipe>>
               \/ /\ frames' = Append(frames, [jpg |-> r.jpg, res |-> "decoded"])
                  /\ frame_bgr' = Image(r.jpg)
                  /\ rpc' = "parse"
                  /\ UNCHANGED <<proc, kids, pipe>>
               \/ /\ frames' = Append(frames, [jpg |-> r.jpg, res |-> "failed"])
                  /\ kids' = StopProc(kids, proc)
                  /\ proc' = None
                  /\ pipe' = <<>>
                  /\ rpc' = "readsleep"
                  /\ UNCHANGED frame_bgr
    /\ UNCHANGED <<measvars, fcall, noisevars, probe, lost, cls, running, impl, frame, thread, lock, binst, heap, pc, tmp,
                   lframe, cpc, ctmp, raised, kpc, held, lastPub, cap,
                   throttle, fed>>

\* (mutation) the throttle test comes before `del self._buf[:eoi]`: a skipped
\* frame stays in the accumulator
RParseSkipKeepsBytes ==
    /\ rpc = "parse"
    /\ LET r == ParseIter(buf) IN
       /\ IF r.brk
          THEN /\ rpc' = "check"
               /\ buf' = r.buf
               /\ stale' = StaleAfter(stale, Len(buf) - Len(r.buf))
               /\ UNCHANGED <<frame_bgr, frames>>
          ELSE /\ rpc' = "parse"
               /\ \/ /\ throttle /\ DecodedBefore
                     /\ frames' = Append(frames, [jpg |-> r.jpg, res |-> "skipped"])
                     /\ UNCHANGED <<frame_bgr, buf, stale>>
                  \/ /\ frames' = Append(frames, [jpg |-> r.jpg, res |-> "decoded"])
                     /\ frame_bgr' = Image(r.jpg)
                     /\ buf' = r.buf
                     /\ stale' = StaleAfter(stale, Len(buf) - Len(r.buf))
                  \/ /\ frames' = Append(frames, [jpg |-> r.jpg, res |-> "failed"])
                     /\ buf' = r.buf
                     /\ stale' = StaleAfter(stale, Len(buf) - Len(r.buf))
                     /\ UNCHANGED frame_bgr
    /\ UNCHANGED <<measvars, fcall, noisevars, probe, lost, cls, running, impl, frame, thread, lock, binst, heap, pc, tmp,
                   lframe, cpc, ctmp, raised, kpc, held, lastPub, cap,
                   proc, kids, pipe, throttle, fed>>

\* one iteration of the marker scan, with the throttle test, the decode and
\* the store of the image under the lock
RParse ==
    /\ rpc = "parse"
    /\ LET r == ParseIter(buf) IN
       /\ buf' = r.buf
       /\ stale' = StaleAfter(stale, Len(buf) - Len(r.buf))
       /\ IF r.brk
          THEN /\ rpc' = "check"
               /\ UNCHANGED <<frame_bgr, frames>>
          ELSE /\ rpc' = "parse"
               /\ \/ /\ throttle /\ DecodedBefore
                     /\ frames' = Append(frames, [jpg |-> r.jpg, res |-> "skipped"])
                     /\ UNCHANGED frame_bgr
                  \/ /\ frames' = Append(frames, [jpg |-> r.jpg, res |-> "decoded"])
                     /\ frame_bgr' = Image(r.jpg)
                  \/ /\ frames' = Append(frames, [jpg |-> r.jpg, res |-> "failed"])
                     /\ UNCHANGED frame_bgr
    /\ UNCHANGED <<measvars, fcall, noisevars, probe, lost, cls, running, impl, frame, thread, lock, binst, heap, pc, tmp,
                   lframe, cpc, ctmp, raised, kpc, held, lastPub, cap,
                   proc, kids, pipe, throttle, fed>>

\* the child writes one more byte of its stream
ChildWrite ==
    /\ proc # None /\ kids[proc] = "alive"
    /\ Len(fed) + Len(pipe) < MaxStream
    /\ \E b \in Bytes : pipe' = Append(pipe, b)
    /\ UNCHANGED <<measvars, fcall, noisevars, probe, lost, cls, running, impl, frame, thread, lock, binst, heap, pc, tmp,
                   lframe, cpc, ctmp, raised, kpc, held, lastPub, cap,
                   proc, kids, buf, frame_bgr, rpc, stale, throttle, fed, frames>>

\* a child exits by itself
ChildExit ==
    /\ \E k \in KidIds :
          /\ kids[k] = "alive"
          /\ kids' = [kids EXCEPT ![k] = IF k = proc THEN "exited" ELSE "free"]
    /\ UNCHANGED <<measvars, fcall, noisevars, probe, lost, cls, running, impl, frame, thread, lock, binst, heap, pc, tmp,
                   lframe, cpc, ctmp, raised, kpc, held, lastPub, cap,
                   proc, pipe, buf, frame_bgr, rpc, stale, throttle, fed, frames>>

InitRpiObject ==
    /\ cls = "rpicam"
    /\ running = FALSE /\ impl = None /\ thread = None /\ lock = NoHolder
    /\ binst = [i \in InstIds |-> "free"]
    /\ frame = None
    /\ heap = [b \in BufIds |-> "free"]
    /\ pc = [t \in ThreadIds |-> "none"]
    /\ tmp = [t \in ThreadIds |-> None]
    /\ lframe = [t \in ThreadIds |-> None]
    /\ cpc = "idle" /\ ctmp = None /\ raised = FALSE
    /\ kpc = [c \in Consumers |-> "idle"]
    /\ held = [c \in Consumers |-> None]
    /\ lastPub = "none"
    /\ cap = 1
    /\ probe = NoProbe
    /\ lost = "none"
    /\ fcall = "none"
    /\ InitRpiBlank

InitRpi ==
    /\ InitRpiObject
    /\ stale = Untagged
    /\ throttle \in BOOLEAN
    /\ InitNoiseIdle
    /\ InitMeasureIdle

\* the same object, with the origin of every accumulator byte followed
InitRpiOrigin ==
    /\ InitRpiObject
    /\ stale = 0
    /\ throttle \in BOOLEAN
    /\ InitNoiseIdle
    /\ InitMeasureIdle

Reader == RCheck \/ REnsure \/ RSpawn \/ RRead \/ RParse

\* the reader thread of a started object and its children
NextRpi == RStart \/ Reader \/ ChildWrite \/ ChildExit

\* the same with stop() called at any time
NextRpiStop == NextRpi \/ RStopCall \/ RStopJoin \/ RStopProc

SpecRpi == InitRpi /\ [][NextRpi]_vars

SpecRpiStop == InitRpi /\ [][NextRpiStop]_vars

SpecRpiOrigin == InitRpiOrigin /\ [][NextRpi]_vars

\* ------------------------------------- camera_rpicam.py: accumulator length
\* what one read(4096) returns while the child keeps writing
ChunkSizes == {READ_SIZE \div 2, READ_SIZE}

\* bytes fed to the parser in one run
FedLimit == 3145728

\* (mutation) the runaway trim is missing
NoiseScanNoTrim(len, soi) == len

\* the marker scan on an accumulator of len bytes that holds no end marker:
\* with the start marker at offset 0 both trims are skipped; with no start
\* marker the accumulator is cut to its tail once it is over the ceiling
NoiseScan(len, soi) ==
    IF soi
    THEN len
    ELSE IF len > BUF_CEILING THEN BUF_KEEP ELSE len

\* chunk = self._proc.stdout.read(4096); self._buf.extend(chunk)
NoiseRead ==
    /\ npc = "read"
    /\ \E c \in ChunkSizes :
          /\ nfed + c <= FedLimit
          /\ nfed' = nfed + c
          /\ nlen' = nlen + c
    /\ npc' = "parse"
    /\ UNCHANGED <<measvars, fcall, probe, lost, cls, running, impl, frame, thread, lock, binst, heap, pc, tmp,
                   lframe, cpc, ctmp, raised, kpc, held, lastPub, cap, rpivars, nsoi>>

\* the inner `while True`, which ends in its first iteration on such a stream
NoisePass ==
    /\ npc = "parse"
    /\ nlen' = NoiseScan(nlen, nsoi)
    /\ npc' = "read"
    /\ UNCHANGED <<measvars, fcall, probe, lost, cls, running, impl, frame, thread, lock, binst, heap, pc, tmp,
                   lframe, cpc, ctmp, raised, kpc, held, lastPub, cap, rpivars,
                   nfed, nsoi>>

InitNoise ==
    /\ InitRpiObject
    /\ stale = Untagged
    /\ throttle = FALSE
    /\ nlen = 0
    /\ nfed = 0
    /\ nsoi \in BOOLEAN
    /\ npc = "read"
    /\ InitMeasureIdle

NextNoise == NoiseRead \/ NoisePass

SpecNoise == InitNoise /\ [][NextNoise]_vars

\* =============================================================== processor.py
\* what cv2.findContours can hand to the loop: centre and radius of the
\* enclosing circle, and whether the contour is degenerate (area or perimeter
\* not positive), below the circularity threshold, or round
Contours ==
    [x : Coords, y : Coords, r : Radii, shape : {"degenerate", "thin", "round"}]

MFree(h) == {a \in MBufIds : h[a].base = "free"}

\* frame.copy() and cv2.resize(): a new array with the content of array a
ArrayCopy(h, a) ==
    LET n == Min(MFree(h)) IN [ref |-> n, heap |-> [h EXCEPT ![n] = h[a]]]

\* zoom_frame(frame, zoom_factor=1): the crop is the whole frame, resized to
\* its own size into a new array
ZoomFrame(h, a) == ArrayCopy(h, a)

\* (mutation) the radius bounds are exclusive
RadiusOkExclusive(r, lo, hi) == ~(r <= lo \/ r >= hi)

\* not (r < min_r_px or r > max_r_px)
RadiusOk(r, lo, hi) == ~(r < lo \/ r > hi)

\* diameter_px / PIXELS_PER_MM with PIXELS_PER_MM = 13.75 / 0.701, as a fraction
DiameterMm(dpx) == <<dpx * 701, 13750>>

Hole(c) ==
    [cx |-> c.x, cy |-> c.y, diameter_px |-> 2 * c.r, diameter_mm |-> DiameterMm(2 * c.r)]

\* cv2.circle and cv2.putText on an array
Draw(content, c) == [content EXCEPT !.marks = Append(@, <<c.x, c.y, c.r>>)]

\* (mutation) the sort key is (cx, cy)
SortKeyColumnFirst(h) == <<h.cx, h.cy>>

\* key=lambda h: (h.cy, h.cx)
SortKey(h) == <<h.cy, h.cx>>

\* comparison of two key tuples
TupleLE(a, b) == a[1] < b[1] \/ (a[1] = b[1] /\ a[2] <= b[2])

\* list.sort(key=...): stable, ascending
RECURSIVE SortHoles(_)
SortHoles(s) ==
    IF s = <<>> THEN <<>>
    ELSE LET srt == SortHoles(SubSeq(s, 1, Len(s) - 1))
             h == s[Len(s)]
             k == Cardinality({i \in 1..Len(srt) : TupleLE(SortKey(srt[i]), SortKey(h))})
         IN SubSeq(srt, 1, k) \o <<h>> \o SubSeq(srt, k + 1, Len(srt))

\* (mutation) the annotations are drawn on the frame that was passed in
MeasureStartInPlace ==
    /\ mpc = "ready"
    /\ mfrm' = 1
    /\ mimg' = 1
    /\ mpc' = "loop"
    /\ UNCHANGED <<mheap, seen, cnt, holes, camvars, rpivars, noisevars>>

\* lines 33-54: zoom, copy, threshold and contour search, radius bounds
MeasureStart ==
    /\ mpc = "ready"
    /\ LET z == ZoomFrame(mheap, 1)
           c == ArrayCopy(z.heap, z.ref)
       IN /\ mfrm' = z.ref
          /\ mimg' = c.ref
          /\ mheap' = c.heap
    /\ mpc' = "loop"
    /\ UNCHANGED <<seen, cnt, holes, camvars, rpivars, noisevars>>

\* for cnt in contours: the next contour, whichever it is
MeasureFetch ==
    /\ mpc = "loop"
    /\ seen < MaxContours
    /\ \E c \in Contours : cnt' = c
    /\ seen' = seen + 1
    /\ mpc' = "body"
    /\ UNCHANGED <<mheap, mfrm, mimg, holes, camvars, rpivars, noisevars>>

\* the loop body: the three shape tests, the radius test, append and draw
MeasureBody ==
    /\ mpc = "body"
    /\ IF cnt.shape = "round" /\ RadiusOk(cnt.r, MinRadiusPx, MaxRadiusPx)
       THEN /\ holes' = Append(holes, Hole(cnt))
            /\ mheap' = [mheap EXCEPT ![mimg] = Draw(@, cnt)]
       ELSE UNCHANGED <<holes, mheap>>
    /\ cnt' = NoContour
    /\ mpc' = "loop"
    /\ UNCHANGED <<mfrm, mimg, seen, camvars, rpivars, noisevars>>

\* the loop has been through every contour: holes.sort(...); return holes, img
MeasureSort ==
    /\ mpc = "loop"
    /\ holes' = SortHoles(holes)
    /\ mpc' = "done"
    /\ UNCHANGED <<mheap, mfrm, mimg, seen, cnt, camvars, rpivars, noisevars>>

\* a call of measure_holes() on a frame
InitMeasure ==
    /\ InitRpiObject
    /\ stale = Untagged
    /\ throttle = FALSE
    /\ InitNoiseIdle
    /\ \E p \in Pixels :
          mheap = [a \in MBufIds |-> IF a = 1 THEN [base |-> p, marks |-> <<>>]
                                     ELSE NoArray]
    /\ mfrm = None
    /\ mimg = None
    /\ seen = 0
    /\ cnt = NoContour
    /\ holes = <<>>
    /\ mpc = "ready"

NextMeasure == MeasureStart \/ MeasureFetch \/ MeasureBody \/ MeasureSort

SpecMeasure == InitMeasure /\ [][NextMeasure]_vars

\* the acquisition object with the /focus endpoint of app.py in use
NextFocus == NextAcq \/ FocusCall

SpecFocus == Init /\ [][NextFocus]_vars

\* an object of any of the three classes, with its acquisition thread
InitAny == Init \/ InitRpi

NextAny ==
    \/ cls # "rpicam" /\ NextAcq
    \/ cls = "rpicam" /\ NextRpi

SpecAny == InitAny /\ [][NextAny]_vars

\* the scheduler runs every loop thread that can take a step
SpecLive == Init /\ [][NextAcq]_vars /\ \A t \in ThreadIds : WF_vars(LoopStep(t))

\* ================================================================ claims
OpenInsts == {i \in InstIds : IsOpen(binst, i)}

\* C1: whatever a consumer writes into an array get_frame() returned, the
\* cache still holds the content of the last publish, no returned array is the
\* cached one, and every get_frame() returns a copy of that last publish.
C1_ReturnedFramesAreCopies ==
    /\ [](frame # None => /\ heap[frame] = lastPub
                          /\ \A c \in Consumers : held[c] # frame)
    /\ [][\A c \in Consumers :
            (kpc[c] = "locked" /\ kpc'[c] = "idle" /\ frame # None)
                => (held'[c] # frame' /\ heap'[held'[c]] = lastPub)]_vars

\* a consumer has scribbled over its array while the cache holds a frame
C1_Witness ==
    \E c \in Consumers :
        /\ held[c] # None /\ heap[held[c]] = Scribbled
        /\ frame # None /\ cls = "camera" /\ heap[frame] \in Pixels

\* C3: no call of start(), get_frame() or stop() ends by an exception caused
\* by a backend failure.
C3_FailuresNeverSurface == raised = FALSE

\* C4: once stop() has returned and no loop thread is alive, no backend
\* instance opened by this object is open.
C4_StopLeavesNothingOpen ==
    (cpc = "idle" /\ ~running /\ \A t \in ThreadIds : ~Alive(t)) => OpenInsts = {}

\* C5: at most one backend instance is open at a time.
C5_AtMostOneOpen == Cardinality(OpenInsts) <= 1

\* C2: a failed read never ends the loop thread (only a cleared running flag
\* does); it leads to the reconnect sleep and from there to an open attempt,
\* every open attempt is made out of that sleep, and a failed attempt leads to
\* the sleep before the next attempt unless stop() is requested.
AfterAttempt(t) == pc[t] \in {"assign", "sleep2"}

C2_ReadFailureReconnects ==
    /\ [][\A t \in ThreadIds :
            /\ (pc[t] # "done" /\ pc'[t] = "done") => ~running
            /\ (~AfterAttempt(t) /\ AfterAttempt(t)') => pc[t] = "sleep1"]_vars
    /\ \A t \in ThreadIds :
            /\ (pc[t] = "except") ~> (pc[t] = "sleep1")
            /\ (pc[t] = "sleep1") ~> AfterAttempt(t)
            /\ (pc[t] = "sleep2" /\ running) ~> (pc[t] = "sleep1" \/ ~running)

\* a read failed after an earlier one had succeeded, and the open attempt that
\* followed failed as well, with stop() not requested
C2_Witness ==
    \E t \in ThreadIds : pc[t] = "sleep2" /\ frame # None /\ running /\ cls = "camera"

\* ------------------------------------------------------- streaming parser
Drop(s, k) == SubSeq(s, k + 1, Len(s))
Take(s, k) == SubSeq(s, 1, k)

\* start marker first, end marker last
WellFormedJpeg(s) ==
    /\ Len(s) >= 4
    /\ Take(s, 2) = SOI
    /\ Drop(s, Len(s) - 2) = EOI

\* the only end marker after the start marker is the last two bytes
SingleEoi(s) == Find(s, EOI, 2) = Len(s) - 2

PassDone == rpc # "parse"

\* the log holds exactly frame j, handed to the decoder, and the cache holds its
\* image if it decoded
OnlyFrame(j) ==
    /\ Len(frames) = 1
    /\ frames[1].jpg = j
    /\ frames[1].res # "skipped"
    /\ frames[1].res = "decoded" => frame_bgr = Image(j)

C7_AnyGarbage ==
    \A k \in 1..(Len(fed) - 4) :
        (PassDone /\ WellFormedJpeg(Drop(fed, k)))
            => (OnlyFrame(Drop(fed, k)) /\ buf = <<>>)

\* C7 amended: the same for a lead-in that holds no start marker and a JPEG
\* whose only end marker after its start marker is its last two bytes.
C7_GarbageWithoutSoi ==
    \A k \in 1..(Len(fed) - 4) :
        (/\ PassDone
         /\ WellFormedJpeg(Drop(fed, k)) /\ SingleEoi(Drop(fed, k))
         /\ Find(fed, SOI, 0) = k)
            => (OnlyFrame(Drop(fed, k)) /\ buf = <<>>)

\* a lead-in that holds an end marker, then a JPEG, which came out alone
C7_Witness ==
    /\ PassDone /\ Len(fed) >= 6 /\ Take(fed, 2) = EOI
    /\ \E k \in 2..(Len(fed) - 4) :
          /\ WellFormedJpeg(Drop(fed, k)) /\ SingleEoi(Drop(fed, k))
          /\ Find(fed, SOI, 0) = k
          /\ OnlyFrame(Drop(fed, k)) /\ buf = <<>>

\* C10: the step that finds a frame undecodable leaves the cache, the child
\* and its pipe as they are and stays in the marker scan; and when the stream
\* is a frame that failed to decode followed by a JPEG, that JPEG is the second
\* frame cut out, is decoded (not skipped) and, if it decodes, is what the cache
\* holds.
DecodeFailedStep ==
    /\ Len(frames') = Len(frames) + 1
    /\ frames'[Len(frames')].res = "failed"

C10_DecodeFailureOnlyDropsFrame ==
    /\ [][DecodeFailedStep =>
            /\ frame_bgr' = frame_bgr
            /\ proc' = proc /\ kids' = kids /\ pipe' = pipe
            /\ rpc' = "parse"]_vars
    /\ [](\A k \in 4..(Len(fed) - 4) :
            (/\ PassDone
             /\ WellFormedJpeg(Take(fed, k)) /\ SingleEoi(Take(fed, k))
             /\ WellFormedJpeg(Drop(fed, k)) /\ SingleEoi(Drop(fed, k))
             /\ Len(frames) >= 1 /\ frames[1].res = "failed")
                => (/\ Len(frames) = 2
                    /\ frames[1].jpg = Take(fed, k)
                    /\ frames[2].jpg = Drop(fed, k)
                    /\ frames[2].res # "skipped"
                    /\ frames[2].res = "decoded" => frame_bgr = Image(Drop(fed, k))))

\* a frame failed to decode, the next one was cut out, decoded and published,
\* all from the same child
C10_Witness ==
    /\ PassDone /\ Len(frames) = 2
    /\ frames[1].res = "failed" /\ frames[2].res = "decoded"
    /\ fed = frames[1].jpg \o frames[2].jpg
    /\ frame_bgr = Image(frames[2].jpg)
    /\ proc # None /\ kids[proc] = "alive"

\* ------------------------------------------------------ accumulator bound
NoisePassDone == npc = "read"

\* C8 as stated: after 3 MiB without a start marker the accumulator holds at
\* most 4 KiB.
C8_NoiseLeavesFourKiB ==
    (~nsoi /\ NoisePassDone /\ nfed = FedLimit) => nlen <= BUF_KEEP

\* C8 amended: on a stream without a start marker the accumulator holds at most
\* 2 MiB after every parsing pass, however much has been fed.
C8_NoiseStaysUnderCeiling ==
    (~nsoi /\ NoisePassDone) => nlen <= BUF_CEILING

\* 3 MiB of noise fed: the accumulator was cut once and holds more than 4 KiB
C8_Witness ==
    /\ ~nsoi /\ NoisePassDone
    /\ nfed >= 3 * 1024 * 1024
    /\ nlen < nfed /\ nlen > BUF_KEEP /\ nlen <= BUF_CEILING

\* C9: on every stream the accumulator holds at most B bytes after each parsing
\* pass; B here is the largest length the no-marker trim allows before it cuts.
C9_AccumulatorBounded ==
    NoisePassDone => nlen <= BUF_CEILING + READ_SIZE

\* ------------------------------------------------------------ frame cache
\* the step of thread t that assigns self._frame under the lock
StoreStep(t) == pc[t] = "store" /\ pc'[t] = "pace"

\* the step in which get_frame() of consumer c returns
ReturnStep(c) == kpc[c] = "locked" /\ kpc'[c] = "idle"

InOutage(t) == pc[t] \in {"except", "clear", "sleep1", "assign", "sleep2"}

\* C11: get_frame() returns the content of the last assignment to the cache
\* (empty if there was none), and the cache changes in no step other than
\* the loop's store of a frame it has read: not in the except handler, the
\* close, the sleeps or the open attempts.
C11_LastPublishedFrameIsReturned ==
    /\ [][\A c \in Consumers :
            ReturnStep(c) =>
                IF lastPub = "none"
                THEN held'[c] = None
                ELSE held'[c] # None /\ heap'[held'[c]] = lastPub]_vars
    /\ [][(frame' # frame \/ lastPub' # lastPub) =>
            \E t \in ThreadIds :
                StoreStep(t) /\ ~InOutage(t) /\ heap'[frame'] = lastPub']_vars

\* get_frame() is returning the last good frame while the loop sleeps after
\* a failed re-open
C11_Witness ==
    \E t \in ThreadIds, c \in Consumers :
        /\ cls = "camera" /\ pc[t] = "sleep2" /\ impl = None
        /\ frame # None /\ heap[frame] \in Pixels
        /\ kpc[c] = "idle" /\ held[c] # None /\ heap[held[c]] = lastPub

\* C12: until the first loop thread has been started the frame cache is
\* empty and get_frame() has returned nothing but the empty value, whatever
\* the class of the object.
C12_CacheEmptyBeforeFirstCapture ==
    thread = None => (frame = None /\ \A c \in Consumers : held[c] = None)

LoopAttempt(t) == pc[t] = "sleep1" /\ pc'[t] # "sleep1"
StartAttempt == cpc = "start_init" /\ cpc' # "start_init"

\* what the attempt just made built
LoopBuilt(t) == IF pc'[t] = "assign" THEN binst'[tmp'[t]] ELSE "raise"
StartBuilt == IF cpc' = "start_assign" THEN binst'[ctmp'] ELSE "raise"

\* Picamera2 is used whenever it opens, OpenCV only when Picamera2 did not
\* open, and the attempt fails only when neither opens
Preferred(q, k) ==
    /\ q.picam => k = "picam"
    /\ (~q.picam /\ q.cv) => k = "opencv"
    /\ (~q.picam /\ ~q.cv) => k = "raise"

\* C14: every open attempt, in start() and after every failed read, selects
\* anew with Picamera2 first, whatever backend was in use before.
C14_SelectionOnEveryOpen ==
    [][/\ \A t \in ThreadIds : LoopAttempt(t) => Preferred(probe', LoopBuilt(t))
       /\ StartAttempt => Preferred(probe', StartBuilt)]_vars

\* the loop ran on the OpenCV fallback, its read failed, and the open attempt
\* that followed found Picamera2 available and built it
C14_Witness ==
    \E t \in ThreadIds :
        /\ pc[t] = "assign" /\ lost = "opencv"
        /\ probe.picam /\ binst[tmp[t]] = "picam"

\* ---------------------------------------------------------------- close
\* the steps that close a backend: the except handler and stop() of
\* camera.py, and the two calls of _stop_proc() in the reader loop
LoopCloses(t) == pc[t] = "except" /\ pc'[t] # "except"
StopCloses == cpc = "stop_close" /\ cpc' # "stop_close"
ReaderStopsProc ==
    \/ rpc = "ensure" /\ rpc' = "spawnsleep"
    \/ rpc = "read" /\ rpc' = "readsleep"

Count(s, h) == Cardinality({i \in 1..Len(s) : s[i] = h})

IsPermutation(s, u) ==
    /\ Len(s) = Len(u)
    /\ \A i \in 1..Len(s) : Count(s, s[i]) = Count(u, s[i])

\* (cy, cx) of a before or equal to that of b
RowMajorLE(a, b) == a.cy < b.cy \/ (a.cy = b.cy /\ a.cx <= b.cx)

\* C16: the list measure_holes() returns is in ascending (cy, cx) order, and
\* the sort step only permutes the holes accepted in discovery order.
C16_HolesSortedRowMajor ==
    /\ [](mpc = "done" =>
            \A i \in 1..(Len(holes) - 1) : RowMajorLE(holes[i], holes[i + 1]))
    /\ [][(mpc = "loop" /\ mpc' = "done") => IsPermutation(holes, holes')]_vars

\* three holes returned, two of them in one row, and the hole returned last
\* was the first one discovered (its annotation was drawn first)
C16_Witness ==
    /\ mpc = "done" /\ Len(holes) = 3
    /\ holes[1].cy = holes[2].cy /\ holes[1].cx < holes[2].cx
    /\ holes[2].cy < holes[3].cy
    /\ mheap[mimg].marks[1] = <<holes[3].cx, holes[3].cy, holes[3].diameter_px \div 2>>

\* C17: a round contour whose radius is exactly the lower or the upper bound
\* becomes a hole; one whose radius is one pixel outside either bound does not.
BodyStep == mpc = "body" /\ mpc' = "loop"

C17_RadiusBoundsInclusive ==
    [][(BodyStep /\ cnt.shape = "round") =>
          /\ cnt.r \in {MinRadiusPx, MaxRadiusPx} => holes' = Append(holes, Hole(cnt))
          /\ cnt.r \in {MinRadiusPx - 1, MaxRadiusPx + 1} => holes' = holes]_vars

\* three contours seen: one at each bound accepted, a third one rejected
C17_Witness ==
    /\ mpc = "loop" /\ seen = 3 /\ Len(holes) = 2
    /\ holes[1].diameter_px = 2 * MinRadiusPx
    /\ holes[2].diameter_px = 2 * MaxRadiusPx

\* C18: no step of measure_holes() writes to the array it was given, the
\* array it returns is another one, and with no hole accepted the returned
\* array has the content of the given one.
C18_InputFrameUntouched ==
    /\ [][mheap'[1] = mheap[1]]_vars
    /\ [](mpc = "done" =>
            /\ mimg # 1
            /\ holes = <<>> => mheap[mimg] = mheap[1])

\* a call that went through two contours and accepted none has returned
C18_Witness ==
    /\ mpc = "done" /\ seen >= 2 /\ holes = <<>>
    /\ mimg # 1 /\ mheap[mimg] = mheap[1]

\* ---------------------------------------------------------------- focus
\* C19: no focus call on the acquisition object ends by an exception.
C19_FocusCallsNeverRaise == fcall # "raised"

\* the rest of C19: a focus call changes neither the running flag nor the
\* backend nor the cached frame
FocusLeavesLoopAlone ==
    [][fcall' # fcall =>
          /\ running' = running /\ impl' = impl /\ binst' = binst
          /\ frame' = frame /\ heap' = heap /\ pc' = pc]_vars

\* ------------------------------------------------------ loop state machine
\* C20: a loop thread is at its read statement only with a backend assigned:
\* after a failed read no read is attempted before an open attempt succeeded.
C20_NoReadWithoutBackend ==
    \A t \in ThreadIds : pc[t] = "read" => impl # None

\* --------------------------------------------------------------- restart
AliveThreads == {t \in ThreadIds : Alive(t)}

\* C21: at most one loop thread of the object is alive at any time, whatever
\* start() and stop() calls were made.
C21_AtMostOneLoopThread == Cardinality(AliveThreads) <= 1

\* C22: when no call of start() or stop() is under way and the running flag
\* is set, a loop thread of the object is alive.
C22_RunningFlagMeansThread ==
    (cpc = "idle" /\ running) => AliveThreads # {}

\* a parsing step that cuts a frame out of the accumulator
ExtractStep == rpc = "parse" /\ Len(frames') = Len(frames) + 1

\* the frame that step cuts out starts among the bytes earlier children wrote
\* and ends among the bytes of the running child
JoinsTwoChildren ==
    /\ Find(buf, SOI, 0) < stale
    /\ stale < Len(buf) - Len(buf')

\* C23: every frame the streaming parser extracts consists of bytes of a single
\* child process: bytes an earlier child left in the accumulator are never
\* joined with bytes of the child spawned after it into one extracted frame.
C23_FramesFromOneChild == [][ExtractStep => ~JoinsTwoChildren]_vars

\* C24: every iteration of the inner marker-scanning loop either leaves the
\* loop, and the reader goes back to the loop test before the next read, or
\* stays in it with at least two bytes fewer in the accumulator, also when the
\* frame is skipped by the decode throttle; so each parsing pass terminates.
C24_ParsePassTerminates ==
    [][RParse =>
          \/ rpc' = "check"
          \/ rpc' = "parse" /\ Len(buf') + 2 <= Len(buf)]_vars

\* the reader is back at the read after a pass whose last frame was skipped by
\* the throttle, and the accumulator no longer holds that frame
C24_Witness ==
    /\ rpc = "read"
    /\ throttle
    /\ frames # <<>>
    /\ frames[Len(frames)].res = "skipped"
    /\ Find(buf, SOI, 0) < 0

====
